---- MODULE Spec2Model ----
(***************************************************************************)
(* The PurpleAir air-quality database of FinalAssignment.py: the DataSet   *)
(* object (header, readings, zip filters, time labels), the menu loop and  *)
(* the zip-filter dialogue that drive it.                                  *)
(*                                                                         *)
(* Python values are modelled as follows.                                  *)
(*   str        a TLA+ string; a text that the program converts (the       *)
(*              concentration column, a typed menu choice, the header) is  *)
(*              the sequence of its characters                             *)
(*   float      a binary floating-point number with a Precision-bit        *)
(*              significand, held as the integer number of 2^-FracBits     *)
(*              units it equals; every float operation rounds to nearest,  *)
(*              ties to even, as IEEE 754 does                             *)
(*   None/list  _data is the record [isList, rows]                         *)
(*   dict       _zips is the sequence of its <<key, value>> items in       *)
(*              insertion order                                            *)
(***************************************************************************)
EXTENDS Integers, Sequences, FiniteSets, TLC

\* ------------------------------------------------------------ bounds
MaxRows == 3
MaxHeaderLen == 32
Precision == 5
FracBits == 4

\* ------------------------------------------------------------ program constants
HeaderLimit == 30
MIN == 0
AVG == 1
MAX == 2
Stats == {MIN, AVG, MAX}
Marker == "Approximate Zip Code"
NoDataMessage == "No data is loaded. Please load the data set."

\* ------------------------------------------------------------ floating point
RECURSIVE Pow(_, _)
Pow(b, k) == IF k = 0 THEN 1 ELSE b * Pow(b, k - 1)

\* a / b rounded to the nearest integer, ties to the even one
RoundHalfEven(a, b) ==
    LET q == a \div b
        r == a % b
    IN  IF 2 * r < b THEN q
        ELSE IF 2 * r > b THEN q + 1
        ELSE IF q % 2 = 0 THEN q ELSE q + 1

\* the exponent at which a / b has at most Precision significant bits
RECURSIVE Exponent(_, _, _)
Exponent(a, b, k) ==
    IF a < Pow(2, Precision + k) * b THEN k ELSE Exponent(a, b, k + 1)

\* the float nearest to the exact quotient a / b (both in units)
RoundFloat(a, b) ==
    LET k == Exponent(a, b, 0)
    IN  RoundHalfEven(a, b * Pow(2, k)) * Pow(2, k)

FloatAdd(x, y) == RoundFloat(x + y, 1)
FloatDiv(x, n) == RoundFloat(x, n)

\* ------------------------------------------------------------ text conversions
Digits == <<"0", "1", "2", "3", "4", "5", "6", "7", "8", "9">>
IsDigit(c) == \E d \in 1..10 : Digits[d] = c
DigitValue(c) == (CHOOSE d \in 1..10 : Digits[d] = c) - 1
AllDigits(s) == \A i \in 1..Len(s) : IsDigit(s[i])

RECURSIVE DecimalValue(_)
DecimalValue(s) ==
    IF Len(s) = 0 THEN 0
    ELSE 10 * DecimalValue(SubSeq(s, 1, Len(s) - 1)) + DigitValue(s[Len(s)])

\* int(text) for an unsigned decimal text
ParseInt(s) ==
    IF Len(s) > 0 /\ AllDigits(s)
    THEN [raised |-> "none", value |-> DecimalValue(s)]
    ELSE [raised |-> "ValueError", value |-> 0]

PointAt(s) ==
    IF \E i \in 1..Len(s) : s[i] = "."
    THEN CHOOSE i \in 1..Len(s) : s[i] = "." /\ \A j \in 1..(i - 1) : s[j] # "."
    ELSE Len(s) + 1

\* float(text) for an unsigned decimal text "ddd", "ddd.ddd", "ddd." or ".ddd"
ParseFloat(s) ==
    LET p == PointAt(s)
        whole == SubSeq(s, 1, p - 1)
        frac == SubSeq(s, p + 1, Len(s))
    IN  IF AllDigits(whole) /\ AllDigits(frac) /\ Len(whole) + Len(frac) > 0
        THEN [raised |-> "none",
              value |-> RoundFloat(DecimalValue(whole \o frac) * Pow(2, FracBits),
                                   Pow(10, Len(frac)))]
        ELSE [raised |-> "ValueError", value |-> 0]

\* format(x, ".2f"): the float in hundredths, rounded half to even
Format2f(x) == RoundHalfEven(x * 100, Pow(2, FracBits))

\* a float literal of the source text
Literal(s) == ParseFloat(s).value

\* ------------------------------------------------------------ inputs
DefaultData ==
    << <<"12345", "Morning", Literal(<<"1", ".", "1">>)>>,
       <<"94022", "Morning", Literal(<<"2", ".", "2">>)>>,
       <<"94040", "Morning", Literal(<<"3", ".", "0">>)>>,
       <<"94022", "Midday", Literal(<<"1", ".", "0">>)>>,
       <<"94040", "Morning", Literal(<<"1", ".", "0">>)>>,
       <<"94022", "Evening", Literal(<<"3", ".", "2">>)>> >>

\* rows the csv reader can yield: a header row, two data rows, a data row whose
\* concentration is not a number, and the empty row of a blank line
CsvRows ==
    { <<"Sensor", Marker, "Lat", "Lon", "Time of Day", <<"P", "M">>>>,
      <<"s1", "94022", "37.3", "-122.1", "Morning", <<"6", ".", "5">>>>,
      <<"s2", "95014", "37.3", "-122.0", "Night", <<"5", ".", "5", "0">>>>,
      <<"s3", "95014", "37.3", "-122.0", "Morning", <<"n", "/", "a">>>>,
      <<>> }

RowSeqs == UNION { [1..n -> CsvRows] : n \in 0..MaxRows }

\* the data file: absent, or its rows
Files == { [exists |-> FALSE, rows |-> <<>>] }
         \cup { [exists |-> TRUE, rows |-> r] : r \in RowSeqs }

UnknownZip == "00000"
ArgZips == {"12345", "94022", "94040", "95014", UnknownZip}
ArgTimes == {"Morning", "Midday", "Evening", "Night", "Dawn"}

Text(n) == [i \in 1..n |-> "h"]
HeaderTexts == { Text(n) : n \in {0} \cup ((HeaderLimit - 1)..MaxHeaderLen) }

\* what the user can type at a prompt
Typed == { <<>>, <<"x">>, <<"0">>, <<"1">>, <<"2">>, <<"3">>, <<"4">>, <<"5">>,
           <<"9">>, <<"1", "0">> }

\* ------------------------------------------------------------ state
VARIABLES header, data, zips, times, pc, out
vars == <<header, data, zips, times, pc, out>>

None == [isList |-> FALSE, rows |-> <<>>]
List(rows) == [isList |-> TRUE, rows |-> rows]
NoneItem == <<>>
IsNone(x) == Len(x) = 0

Result(op, arg, raised, printed) ==
    [op |-> op, arg |-> arg, raised |-> raised, printed |-> printed]

\* ------------------------------------------------------------ Python built-ins
Range(s) == { s[i] : i \in 1..Len(s) }
Perms(S) == { s \in [1..Cardinality(S) -> S] : Range(s) = S }

RECURSIVE PyMin(_)
PyMin(s) ==
    IF Len(s) = 1 THEN s[1]
    ELSE LET m == PyMin(SubSeq(s, 1, Len(s) - 1))
         IN  IF s[Len(s)] < m THEN s[Len(s)] ELSE m

RECURSIVE PyMax(_)
PyMax(s) ==
    IF Len(s) = 1 THEN s[1]
    ELSE LET m == PyMax(SubSeq(s, 1, Len(s) - 1))
         IN  IF s[Len(s)] > m THEN s[Len(s)] ELSE m

\* sum(): left to right from 0, one rounding per addition
RECURSIVE PySum(_)
PySum(s) ==
    IF Len(s) = 0 THEN 0
    ELSE FloatAdd(PySum(SubSeq(s, 1, Len(s) - 1)), s[Len(s)])

Keys(d) == [i \in 1..Len(d) |-> d[i][1]]
HasKey(d, k) == \E i \in 1..Len(d) : d[i][1] = k
Lookup(d, k) == d[CHOOSE i \in 1..Len(d) : d[i][1] = k][2]

\* slip: a key that is set again moves to the end (del d[k]; d[k] = v)
DictSet_reinsert(d, k, v) ==
    LET NotK(item) == item[1] # k
    IN  Append(SelectSeq(d, NotK), <<k, v>>)

\* d[k] = v: a present key keeps its place, a new key goes to the end
DictSet(d, k, v) ==
    IF HasKey(d, k)
    THEN [i \in 1..Len(d) |-> IF d[i][1] = k THEN <<k, v>> ELSE d[i]]
    ELSE Append(d, <<k, v>>)

\* ------------------------------------------------------------ DataSet
RECURSIVE MatchedData(_, _, _)
MatchedData(rows, descriptor_one, descriptor_two) ==
    IF Len(rows) = 0 THEN <<>>
    ELSE LET row == rows[1]
             rest == MatchedData(Tail(rows), descriptor_one, descriptor_two)
         IN  IF row[1] = descriptor_one /\ row[2] = descriptor_two
             THEN <<row[3]>> \o rest
             ELSE rest

\* slip: the rows are matched before the dataset is looked at
cross_table_statistics_match_first(descriptor_one, descriptor_two) ==
    LET rows == IF data.isList THEN data.rows ELSE <<>>
        matched_data == MatchedData(rows, descriptor_one, descriptor_two)
    IN  IF Len(matched_data) = 0
        THEN [raised |-> "NoMatchingItems", value |-> <<>>]
        ELSE [raised |-> "none",
              value |-> << PyMin(matched_data),
                           FloatDiv(PySum(matched_data), Len(matched_data)),
                           PyMax(matched_data) >>]

cross_table_statistics(descriptor_one, descriptor_two) ==
    IF ~data.isList \/ Len(data.rows) = 0
    THEN [raised |-> "EmptyDatasetError", value |-> <<>>]
    ELSE LET matched_data == MatchedData(data.rows, descriptor_one, descriptor_two)
         IN  IF Len(matched_data) = 0
             THEN [raised |-> "NoMatchingItems", value |-> <<>>]
             ELSE [raised |-> "none",
                   value |-> << PyMin(matched_data),
                                FloatDiv(PySum(matched_data), Len(matched_data)),
                                PyMax(matched_data) >>]

\* slip: a zip code that is already in the mapping keeps its flag
RECURSIVE LabelZips_keep(_)
LabelZips_keep(rows) ==
    IF Len(rows) = 0 THEN <<>>
    ELSE LET zip_code == rows[Len(rows)][1]
         IN  DictSet(LabelZips_keep(SubSeq(rows, 1, Len(rows) - 1)), zip_code,
                     IF HasKey(zips, zip_code) THEN Lookup(zips, zip_code) ELSE TRUE)

RECURSIVE LabelZips(_)
LabelZips(rows) ==
    IF Len(rows) = 0 THEN <<>>
    ELSE DictSet(LabelZips(SubSeq(rows, 1, Len(rows) - 1)), rows[Len(rows)][1], TRUE)

LabelTimes(rows) == { rows[i][2] : i \in 1..Len(rows) }

RECURSIVE MergeZips(_, _)
MergeZips(d, rows) ==
    IF Len(rows) = 0 THEN d
    ELSE DictSet(MergeZips(d, SubSeq(rows, 1, Len(rows) - 1)), rows[Len(rows)][1], TRUE)

\* slip: the labels are added to those of the load before
initialize_labels_merge(rows) ==
    /\ zips' = MergeZips(zips, rows)
    /\ times' \in Perms(Range(times) \cup LabelTimes(rows))

\* _initialize_labels: list(set) may come out in any order
initialize_labels(rows) ==
    /\ zips' = LabelZips(rows)
    /\ times' \in Perms(LabelTimes(rows))

NACell == [text |-> "N/A", hundredths |-> 0]
NumberCell(x) == [text |-> ".2f", hundredths |-> Format2f(x)]

\* slip: the menu number (1 average, 2 minimum) is taken for the index
TableCell_menu_index(stat, zip_code, time_of_day) ==
    LET min_max_avg == cross_table_statistics(zip_code, time_of_day)
        index == IF stat = AVG THEN 1 ELSE IF stat = MIN THEN 2 ELSE 3
    IN  IF min_max_avg.raised = "NoMatchingItems" THEN NACell
        ELSE NumberCell(min_max_avg.value[index])

TableCell(stat, zip_code, time_of_day) ==
    LET min_max_avg == cross_table_statistics(zip_code, time_of_day)
    IN  IF min_max_avg.raised = "NoMatchingItems" THEN NACell
        ELSE NumberCell(min_max_avg.value[stat + 1])

RECURSIVE TableRows(_, _)
TableRows(stat, items) ==
    IF Len(items) = 0 THEN <<>>
    ELSE LET zip_code == items[1][1]
             rest == TableRows(stat, Tail(items))
         IN  IF ~items[1][2] THEN rest
             ELSE << [zip |-> zip_code,
                      cells |-> [i \in 1..Len(times) |->
                                    TableCell(stat, zip_code, times[i])]] >> \o rest

display_cross_table(stat) ==
    IF ~data.isList \/ Len(data.rows) = 0
    THEN [raised |-> "none", printed |-> [message |-> NoDataMessage]]
    ELSE IF \E i \in 1..Len(zips), j \in 1..Len(times) :
               /\ zips[i][2]
               /\ cross_table_statistics(zips[i][1], times[j]).raised
                     = "EmptyDatasetError"
         THEN [raised |-> "EmptyDatasetError", printed |-> [message |-> ""]]
         ELSE [raised |-> "none",
               printed |-> [message |-> "", head |-> times,
                            body |-> TableRows(stat, zips)]]

get_data == IF ~data.isList THEN <<NoneItem>> ELSE data.rows
get_zips == zips

\* slip: the zip code is taken from the column before
RECURSIVE ReadRows_column(_)
ReadRows_column(rows) ==
    IF Len(rows) = 0 THEN [raised |-> "none", rows |-> <<>>]
    ELSE LET row == rows[1]
         IN  IF Len(row) < 2 THEN [raised |-> "IndexError", rows |-> <<>>]
             ELSE IF row[2] = Marker THEN ReadRows_column(Tail(rows))
             ELSE IF Len(row) < 6 THEN [raised |-> "IndexError", rows |-> <<>>]
             ELSE LET f == ParseFloat(row[6])
                      rest == ReadRows_column(Tail(rows))
                  IN  IF f.raised # "none" THEN [raised |-> f.raised, rows |-> <<>>]
                      ELSE IF rest.raised # "none" THEN rest
                      ELSE [raised |-> "none",
                            rows |-> << <<row[1], row[5], f.value>> >> \o rest.rows]

\* the list comprehension of load_file over the rows of the reader
RECURSIVE ReadRows(_)
ReadRows(rows) ==
    IF Len(rows) = 0 THEN [raised |-> "none", rows |-> <<>>]
    ELSE LET row == rows[1]
         IN  IF Len(row) < 2 THEN [raised |-> "IndexError", rows |-> <<>>]
             ELSE IF row[2] = Marker THEN ReadRows(Tail(rows))
             ELSE IF Len(row) < 6 THEN [raised |-> "IndexError", rows |-> <<>>]
             ELSE LET f == ParseFloat(row[6])
                      rest == ReadRows(Tail(rows))
                  IN  IF f.raised # "none" THEN [raised |-> f.raised, rows |-> <<>>]
                      ELSE IF rest.raised # "none" THEN rest
                      ELSE [raised |-> "none",
                            rows |-> << <<row[2], row[5], f.value>> >> \o rest.rows]

Init ==
    /\ header = <<>>
    /\ data = None
    /\ zips = <<>>
    /\ times = <<>>
    /\ pc = "main"
    /\ out = Result("DataSet", <<>>, "none", <<>>)

\* slip: < for <=
header_setter_strict(text) ==
    IF Len(text) < HeaderLimit
    THEN /\ header' = text
         /\ out' = Result("header", text, "none", <<>>)
    ELSE /\ header' = header
         /\ out' = Result("header", text, "ValueError", <<>>)

header_setter(text) ==
    IF Len(text) <= HeaderLimit
    THEN /\ header' = text
         /\ out' = Result("header", text, "none", <<>>)
    ELSE /\ header' = header
         /\ out' = Result("header", text, "ValueError", <<>>)

\* one round of the loop of main: the ValueError is caught and the prompt repeats
main(text) ==
    /\ pc = "main"
    /\ header_setter(text)
    /\ pc' = IF out'.raised = "none" THEN "returned" ELSE "main"
    /\ UNCHANGED <<data, zips, times>>

\* print(my_dataset.header); print_menu(): the program waits for a choice
print_menu ==
    /\ pc = "returned"
    /\ pc' = "menu"
    /\ out' = Result("print_menu", <<>>, "none", header)
    /\ UNCHANGED <<header, data, zips, times>>

\* a caller other than the menu sets the header
set_header(text) ==
    /\ pc = "menu"
    /\ header_setter(text)
    /\ pc' = "returned"
    /\ UNCHANGED <<data, zips, times>>

load_default_data ==
    /\ pc = "menu"
    /\ data' = List(DefaultData)
    /\ initialize_labels(DefaultData)
    /\ out' = Result("load_default_data", <<>>, "none", <<>>)
    /\ pc' = "returned"
    /\ UNCHANGED header

\* a load that raises leaves no trace of the file: _data is assigned only when
\* the whole comprehension has been evaluated
load_file(file) ==
    IF ~file.exists
    THEN /\ out' = Result("load_file", <<>>, "FileNotFoundError", <<>>)
         /\ UNCHANGED <<header, data, zips, times>>
    ELSE LET read == ReadRows(file.rows)
         IN  IF read.raised # "none"
             THEN /\ out' = Result("load_file", <<>>, read.raised, <<>>)
                  /\ UNCHANGED <<header, data, zips, times>>
             ELSE /\ data' = List(read.rows)
                  /\ initialize_labels(read.rows)
                  /\ out' = Result("load_file", file.rows, "none",
                                   [lines |-> Len(read.rows)])
                  /\ UNCHANGED header

\* slip: a missing key is read as inactive (not self._zips.get(target_zip))
toggle_zip_create(target_zip) ==
    /\ zips' = DictSet(zips, target_zip,
                       IF HasKey(zips, target_zip) THEN ~Lookup(zips, target_zip)
                       ELSE TRUE)
    /\ out' = Result("toggle_zip", target_zip, "none", <<>>)

toggle_zip(target_zip) ==
    IF ~HasKey(zips, target_zip)
    THEN /\ zips' = zips
         /\ out' = Result("toggle_zip", target_zip, "LookupError", <<>>)
    ELSE /\ zips' = DictSet(zips, target_zip, ~Lookup(zips, target_zip))
         /\ out' = Result("toggle_zip", target_zip, "none", <<>>)

\* a caller other than manage_filters toggles a zip code
call_toggle_zip(target_zip) ==
    /\ pc = "menu"
    /\ toggle_zip(target_zip)
    /\ pc' = "returned"
    /\ UNCHANGED <<header, data, times>>

call_cross_table_statistics(descriptor_one, descriptor_two) ==
    /\ pc = "menu"
    /\ LET r == cross_table_statistics(descriptor_one, descriptor_two)
       IN  out' = Result("cross_table_statistics",
                         <<descriptor_one, descriptor_two>>, r.raised, r.value)
    /\ pc' = "returned"
    /\ UNCHANGED <<header, data, zips, times>>

manage_filters ==
    LET gotten == get_data
    IN  IF Len(gotten) = 0
        THEN /\ out' = Result("manage_filters", <<>>, "IndexError", <<>>)
             /\ pc' = "exit"
        ELSE IF IsNone(gotten[1])
        THEN /\ out' = Result("manage_filters", <<>>, "none",
                              [message |-> NoDataMessage])
             /\ pc' = "returned"
        ELSE /\ out' = Result("manage_filters", <<>>, "none",
                              [message |-> "", labels |-> get_zips])
             /\ pc' = "filters"

\* one round of the dialogue of manage_filters, from one prompt to the next
filters(typed) ==
    /\ pc = "filters"
    /\ LET gotten_zips == get_zips
           selected_zip == ParseInt(typed)
       IN  IF Len(typed) = 0
           THEN /\ out' = Result("filters", typed, "none", [message |-> "finished"])
                /\ pc' = "returned"
                /\ zips' = zips
           ELSE IF selected_zip.raised # "none"
           THEN /\ out' = Result("filters", typed, "none",
                                 [message |-> "Please enter a number next time.",
                                  labels |-> gotten_zips])
                /\ UNCHANGED <<pc, zips>>
           ELSE IF selected_zip.value \in 1..Len(gotten_zips)
           THEN /\ toggle_zip(gotten_zips[selected_zip.value][1])
                /\ pc' = IF out'.raised = "none" THEN "filters" ELSE "exit"
           ELSE /\ out' = Result("filters", typed, "none",
                                 [message |-> "That is not a valid selection.",
                                  labels |-> gotten_zips])
                /\ UNCHANGED <<pc, zips>>
    /\ UNCHANGED <<header, data, times>>

MenuStat(n) == IF n = 1 THEN AVG ELSE IF n = 2 THEN MIN ELSE MAX

\* one round of the loop of menu; an exception no handler catches ends the program
menu(typed, file) ==
    /\ pc = "menu"
    /\ LET number_as_int == ParseInt(typed)
       IN  IF number_as_int.raised # "none"
           THEN /\ out' = Result("menu", typed, "none",
                                 [message |-> "Please enter a number next time."])
                /\ pc' = "returned"
                /\ UNCHANGED <<header, data, zips, times>>
           ELSE IF number_as_int.value = 9
           THEN /\ out' = Result("menu", typed, "none",
                                 [message |-> "Exiting database. Goodbye."])
                /\ pc' = "exit"
                /\ UNCHANGED <<header, data, zips, times>>
           ELSE IF number_as_int.value \in {1, 2, 3}
           THEN LET stat == MenuStat(number_as_int.value)
                    shown == display_cross_table(stat)
                IN  /\ out' = Result("display_cross_table", stat,
                                     shown.raised, shown.printed)
                    /\ pc' = IF shown.raised = "none" THEN "returned" ELSE "exit"
                    /\ UNCHANGED <<header, data, zips, times>>
           ELSE IF number_as_int.value = 4
           THEN /\ manage_filters
                /\ UNCHANGED <<header, data, zips, times>>
           ELSE IF number_as_int.value = 5
           THEN /\ load_file(file)
                /\ pc' = IF out'.raised = "none" THEN "returned" ELSE "exit"
           ELSE /\ out' = Result("menu", typed, "none",
                                 [message |-> "That is not a valid selection."])
                /\ pc' = "returned"
                /\ UNCHANGED <<header, data, zips, times>>

\* the data file is read by option 5 only
FilesRead(typed) ==
    IF ParseInt(typed) = [raised |-> "none", value |-> 5]
    THEN Files ELSE { [exists |-> FALSE, rows |-> <<>>] }

Next ==
    \/ \E text \in HeaderTexts : main(text)
    \/ print_menu
    \/ \E text \in HeaderTexts : set_header(text)
    \/ load_default_data
    \/ \E target_zip \in ArgZips : call_toggle_zip(target_zip)
    \/ \E z \in ArgZips, t \in ArgTimes : call_cross_table_statistics(z, t)
    \/ \E typed \in Typed : \E file \in FilesRead(typed) : menu(typed, file)
    \/ \E typed \in Typed : filters(typed)

Spec == Init /\ [][Next]_vars

\* ------------------------------------------------------------ properties
NoReadings == ~data.isList \/ Len(data.rows) = 0

Matches(row, zip_code, time_of_day) == row[1] = zip_code /\ row[2] = time_of_day

\* the concentrations of the readings of a zip code at a time of day, in order
MatchedValues(zip_code, time_of_day) ==
    LET IsMatch(row) == Matches(row, zip_code, time_of_day)
        kept == SelectSeq(data.rows, IsMatch)
    IN  [i \in 1..Len(kept) |-> kept[i][3]]

SetMin(S) == CHOOSE x \in S : \A y \in S : x <= y
SetMax(S) == CHOOSE x \in S : \A y \in S : x >= y

\* the zip codes of the readings, each at its first occurrence
RECURSIVE FirstSeen(_)
FirstSeen(rows) ==
    IF Len(rows) = 0 THEN <<>>
    ELSE LET earlier == FirstSeen(SubSeq(rows, 1, Len(rows) - 1))
             zip_code == rows[Len(rows)][1]
         IN  IF zip_code \in Range(earlier) THEN earlier
             ELSE Append(earlier, zip_code)

IsTable == /\ out.op = "display_cross_table"
           /\ out.raised = "none"
           /\ out.printed.message = ""

\* C1: _cross_table_statistics fails with EmptyDatasetError, and never with
\* NoMatchingItems, when nothing is loaded or the readings are empty; on a
\* non-empty dataset with no reading of the zip code at the time of day it fails
\* with NoMatchingItems, and never with EmptyDatasetError.
C1_FailureKind ==
    out.op = "cross_table_statistics" =>
        /\ NoReadings => out.raised = "EmptyDatasetError"
        /\ ~NoReadings /\ Len(MatchedValues(out.arg[1], out.arg[2])) = 0
              => out.raised = "NoMatchingItems"
        /\ ~NoReadings /\ Len(MatchedValues(out.arg[1], out.arg[2])) > 0
              => out.raised = "none"

C1_Witness ==
    /\ out.op = "cross_table_statistics"
    /\ out.raised = "NoMatchingItems"
    /\ out.arg = <<"12345", "Evening">>
    /\ data = List(DefaultData)

\* C2: with at least one matching reading the returned triple is (minimum,
\* sum / count, maximum) of the matched concentrations, and minimum <= average
\* <= maximum.
C2_MinAvgMax ==
    out.op = "cross_table_statistics" /\ out.raised = "none" =>
        LET values == MatchedValues(out.arg[1], out.arg[2])
        IN  /\ out.printed[1] = SetMin(Range(values))
            /\ out.printed[3] = SetMax(Range(values))
            /\ out.printed[1] <= out.printed[2]
            /\ out.printed[2] <= out.printed[3]

\* the statistic a cell shows
ExpectedStat(stat, values) ==
    IF stat = MIN THEN SetMin(Range(values))
    ELSE IF stat = MAX THEN SetMax(Range(values))
    ELSE FloatDiv(PySum(values), Len(values))

\* C3: on a loaded, non-empty dataset display_cross_table raises nothing and
\* prints, for every active zip code, one cell per time label: "N/A" exactly when
\* no reading matches the pair, else the selected statistic of the matched
\* concentrations to two decimals.
C3_Cells ==
    out.op = "display_cross_table" /\ ~NoReadings =>
        /\ out.raised = "none"
        /\ out.printed.message = ""
        /\ out.printed.head = times
        /\ Len(out.printed.body) = Cardinality({ i \in 1..Len(zips) : zips[i][2] })
        /\ \A i \in 1..Len(zips) :
              zips[i][2] => \E r \in 1..Len(out.printed.body) :
                                out.printed.body[r].zip = zips[i][1]
        /\ \A r \in 1..Len(out.printed.body) :
              LET row == out.printed.body[r]
              IN  /\ Len(row.cells) = Len(times)
                  /\ \A j \in 1..Len(times) :
                        LET values == MatchedValues(row.zip, times[j])
                        IN  IF Len(values) = 0
                            THEN row.cells[j].text = "N/A"
                            ELSE /\ row.cells[j].text = ".2f"
                                 /\ row.cells[j].hundredths
                                       = Format2f(ExpectedStat(out.arg, values))

C3_Witness ==
    /\ IsTable
    /\ out.arg = MIN
    /\ \E i \in 1..Len(zips) : ~zips[i][2]
    /\ \E r \in 1..Len(out.printed.body) :
          /\ \E j \in 1..Len(times) : out.printed.body[r].cells[j].text = "N/A"
          /\ \E j \in 1..Len(times) :
                /\ out.printed.body[r].cells[j].text = ".2f"
                /\ Len(MatchedValues(out.printed.body[r].zip, times[j])) = 2

\* C4: the rows of the table are the active zip codes in the order in which the
\* load first saw them, whatever toggles came before; the filter mapping keeps
\* that order.
C4_RowOrder ==
    /\ Keys(zips) = FirstSeen(data.rows)
    /\ IsTable =>
          LET IsActive(zip_code) == Lookup(zips, zip_code)
          IN  [r \in 1..Len(out.printed.body) |-> out.printed.body[r].zip]
                 = SelectSeq(FirstSeen(data.rows), IsActive)

C4_Witness ==
    /\ IsTable
    /\ data = List(DefaultData)
    /\ zips = << <<"12345", TRUE>>, <<"94022", FALSE>>, <<"94040", TRUE>> >>
    /\ Len(out.printed.body) = 2

RECURSIVE NonMarkerRows(_)
NonMarkerRows(rows) ==
    IF Len(rows) = 0 THEN 0
    ELSE NonMarkerRows(Tail(rows)) + (IF rows[1][2] = Marker THEN 0 ELSE 1)

\* C5: a load that returns leaves exactly the rows it loaded as the readings and
\* every zip code of the filter mapping active.
C5_LoadResets ==
    out.op \in {"load_default_data", "load_file"} /\ out.raised = "none" =>
        /\ data.isList
        /\ out.op = "load_default_data" => data.rows = DefaultData
        /\ out.op = "load_file" => Len(data.rows) = NonMarkerRows(out.arg)
        /\ Len(zips) = Cardinality({ data.rows[i][1] : i \in 1..Len(data.rows) })
        /\ \A i \in 1..Len(zips) : zips[i][2]

C5_Witness ==
    /\ out.op = "load_file"
    /\ out.raised = "none"
    /\ Len(data.rows) = 2
    /\ Len(zips) = 2
    /\ \A i \in 1..Len(zips) : zips[i][2]

\* C6: in every state the keys of the filter mapping are the distinct zip codes
\* of the readings, each once, and the time labels are the distinct times of day
\* of the readings, each once.
C6_Labels ==
    /\ Range(Keys(zips)) = { data.rows[i][1] : i \in 1..Len(data.rows) }
    /\ Cardinality(Range(Keys(zips))) = Len(zips)
    /\ Range(times) = { data.rows[i][2] : i \in 1..Len(data.rows) }
    /\ Cardinality(Range(times)) = Len(times)

C6_Witness ==
    /\ out.op = "load_file"
    /\ out.raised = "ValueError"
    /\ Len(data.rows) = 6
    /\ \E i \in 1..Len(zips) : ~zips[i][2]
    /\ Len(header) = HeaderLimit

\* C7: toggle_zip of a zip code that is no key of the filter mapping raises
\* LookupError and changes nothing.
C7_UnknownZip ==
    [][out'.op = "toggle_zip" /\ ~HasKey(zips, out'.arg) =>
          /\ out'.raised = "LookupError"
          /\ UNCHANGED <<header, data, zips, times>>]_vars

C7_Witness ==
    /\ out.op = "toggle_zip"
    /\ out.raised = "LookupError"
    /\ out.arg = "95014"
    /\ data = List(DefaultData)

\* C8: the header setter stores a text of at most 30 characters and raises
\* ValueError for a longer one, leaving the stored header as it was; the stored
\* header never exceeds 30 characters.
C8_Header ==
    /\ [](Len(header) <= 30)
    /\ [][out'.op = "header" =>
             IF Len(out'.arg) <= 30
             THEN out'.raised = "none" /\ header' = out'.arg
             ELSE out'.raised = "ValueError" /\ header' = header]_vars

C8_Witness ==
    /\ out.op = "header"
    /\ out.raised = "ValueError"
    /\ Len(out.arg) = 31
    /\ Len(header) = 30

\* the readings of the rows of a file
ExpectedReadings(rows) ==
    LET NotMarker(row) == row[2] # Marker
        kept == SelectSeq(rows, NotMarker)
    IN  [i \in 1..Len(kept) |->
            <<kept[i][2], kept[i][5], ParseFloat(kept[i][6]).value>>]

\* C9: load_file keeps one reading per row whose second column is not the
\* marker, in file order: the row's second column, fifth column and the float
\* of its sixth column.
C9_FileRows ==
    out.op = "load_file" /\ out.raised = "none" =>
        /\ data.rows = ExpectedReadings(out.arg)
        /\ out.printed.lines = Len(data.rows)
        \* the texts "6.5" and "5.50" of the data rows are the floats 13/2 and 11/2
        /\ \A i \in 1..Len(data.rows) : data.rows[i][3] * 2 \in
              { 13 * Pow(2, FracBits), 11 * Pow(2, FracBits) }

C9_Witness ==
    /\ out.op = "load_file"
    /\ out.raised = "none"
    /\ Len(out.arg) = 3
    /\ out.arg[2][2] = Marker
    /\ Len(data.rows) = 2
    /\ data.rows[1][1] # data.rows[2][1]

\* C10: with no data, never loaded or loaded with zero rows, menu options 1 to 4
\* print the no-data message, raise nothing and return to the menu.
C10_NoData ==
    NoReadings /\ out.op \in {"display_cross_table", "manage_filters"} =>
        /\ out.raised = "none"
        /\ out.printed.message = NoDataMessage
        /\ pc = "returned"

====
